---- MODULE Spec2Model ----
(***************************************************************************)
(* Engine, ServiceCollection, ServiceScope, TypeFinder, StartupTask and     *)
(* StartupTaskExecutor of the obc-ingestion-core framework, as state       *)
(* machines.                                                               *)
(*                                                                         *)
(* Python values are records [tag, cls, serial]:                           *)
(*   tag "obj"  : an instance of class cls, identified by serial           *)
(*   tag "type" : the class cls itself (calling it instantiates cls)       *)
(*   tag "func" : a factory function whose product is an instance of cls   *)
(*   tag "none" : None, the absence marker of get_service                  *)
(* None is never offered as a service implementation: it is the absence    *)
(* marker of the container, not a service value.                           *)
(***************************************************************************)
EXTENDS Integers, Sequences, FiniteSets, TLC

\* ---------------------------------------------------------------- bounds
MaxObjs == 3
MaxTaskSerial == 6
MaxAdds == 4
MaxEngines == 2
MaxScopes == 2
MaxScopeObjs == 2
MaxHookCalls == 3
MaxModules == 3
MaxRepoModules == 2

\* ------------------------------------------------------- program constants
DefaultOrder == 100

\* ------------------------------------------------------------ Python values
None == [tag |-> "none", cls |-> "none", serial |-> 0]

Obj(c, n) == [tag |-> "obj", cls |-> c, serial |-> n]

\* The engine object held in the class-level slot Engine._instance.
EngineObj(e) == Obj("Engine", e)

\* Classes whose instances define __call__.
CallableClasses == {"Handler"}

\* Classes a caller may register: a plain service class and a class whose
\* instances are callable.
ServiceClasses == {"Plain", "Handler"}

\* callable(v)
IsCallable(v) ==
    \/ v.tag = "func"
    \/ v.tag = "type"
    \/ (v.tag = "obj" /\ v.cls \in CallableClasses)

\* isinstance(v, type)
IsType(v) == v.tag = "type"

\* v(): a type or a factory yields a new instance of its class; a callable
\* instance yields a new plain result object.
Invoke(v, n) == Obj(IF v.tag = "obj" THEN "Result" ELSE v.cls, n)

\* Implementations offered to add_singleton: an instance (built by the
\* caller with serial n), a type, or a factory function.
Impl(kind, c, n) ==
    IF kind = "instance" THEN Obj(c, n)
    ELSE IF kind = "type" THEN [tag |-> "type", cls |-> c, serial |-> 0]
    ELSE [tag |-> "func", cls |-> c, serial |-> 0]

ImplKinds == {"instance", "type", "factory"}

\* Number of objects the caller allocates before the call.
CallerAllocs(kind) == IF kind = "instance" THEN 1 ELSE 0

\* ------------------------------------------------------------------- keys
UserKeys == {"K1", "K2"}
CoreKeys == {"IEngine", "IDbContext", "AsyncSession"}

\* The core key only the engine's repository factories look up.
SessionKeys == {"AsyncSession"}
Keys == CoreKeys \cup UserKeys

EmptyTable == [k \in Keys |-> None]

\* Factories offered to add_scoped / add_transient.
FactoryImpls == {Impl("factory", "Plain", 0)}

\* ------------------------------------------------- ServiceCollection (pure)
\* add_singleton: a callable that is not a type is invoked and its result
\* stored; a type is instantiated; anything else is stored as it is.
\* n is the next free object serial.
add_singleton(svcs, k, impl, n) ==
    IF IsCallable(impl) /\ ~IsType(impl)
    THEN [table |-> [svcs EXCEPT ![k] = Invoke(impl, n)], next |-> n + 1, invoked |-> 1]
    ELSE IF IsType(impl)
         THEN [table |-> [svcs EXCEPT ![k] = Invoke(impl, n)], next |-> n + 1, invoked |-> 1]
         ELSE [table |-> [svcs EXCEPT ![k] = impl], next |-> n, invoked |-> 0]

\* add_scoped / add_transient: the factory is stored, never invoked.
add_scoped(sc, k, factory) == [sc EXCEPT ![k] = factory]

\* A registration that calls the factory and keeps its product.
add_transient_eager(tr, k, factory) == [tr EXCEPT ![k] = Invoke(factory, 0)]

add_transient(tr, k, factory) == [tr EXCEPT ![k] = factory]

\* The stored singleton is called when it is a callable that is not a type.
StoredIsFactory(service) == IsCallable(service) /\ ~IsType(service)

\* A root container that serves a scoped registration by calling its factory.
RootScoped_invoking(factory, n) ==
    [outcome |-> "ok", value |-> Invoke(factory, n), invoked |-> 1, next |-> n + 1]

\* if type_ in self._scoped_factories: raise ValueError(... is scoped and
\* requires a ServiceScope)
RootScoped(factory, n) ==
    [outcome |-> "scoped_error", value |-> None, invoked |-> 0, next |-> n]

\* get_service: outcome "ok" with a value, "scoped_error" (ValueError: the
\* service is scoped and requires a ServiceScope), or "none" (returns None).
get_service(svcs, sc, tr, k, n) ==
    IF svcs[k] # None
    THEN IF StoredIsFactory(svcs[k])
         THEN [outcome |-> "ok", value |-> Invoke(svcs[k], n), invoked |-> 1, next |-> n + 1]
         ELSE [outcome |-> "ok", value |-> svcs[k], invoked |-> 0, next |-> n]
    ELSE IF sc[k] # None
         THEN RootScoped(sc[k], n)
         ELSE IF tr[k] # None
              THEN [outcome |-> "ok", value |-> Invoke(tr[k], n), invoked |-> 1, next |-> n + 1]
              ELSE [outcome |-> "none", value |-> None, invoked |-> 0, next |-> n]

\* Objects a get_service call may allocate.
GetAllocs(svcs, sc, tr, k) == get_service(svcs, sc, tr, k, 0).next

\* Objects an add_singleton call may allocate.
AddAllocs(impl) == add_singleton(EmptyTable, "K1", impl, 0).next

\* ---------------------------------------------------------- Engine.resolve
\* A resolve without the started check.
ResolveRequiresStart_unchecked(st) == FALSE

\* The started check of Engine.resolve.
ResolveRequiresStart(st) == ~st

\* Engine.resolve: RuntimeError when not started, ValueError when
\* get_service returns None, otherwise what get_service returned or raised.
resolve(st, svcs, sc, tr, k, n) ==
    IF ResolveRequiresStart(st)
    THEN [outcome |-> "not_started", value |-> None, invoked |-> 0, next |-> n]
    ELSE LET r == get_service(svcs, sc, tr, k, n)
         IN IF r.outcome = "none"
            THEN [outcome |-> "not_registered", value |-> None, invoked |-> 0, next |-> n]
            ELSE r

\* ------------------------------------------------------------ ServiceScope
\* Classes whose instances expose a callable dispose attribute.
DisposableClasses == {"Disposable"}

\* hasattr(service, 'dispose') and callable(service.dispose)
HasDisposeHook(v) == v.tag = "obj" /\ v.cls \in DisposableClasses

\* A factory function whose call raises instead of returning an instance.
FailingFactory == [tag |-> "func", cls |-> "Failing", serial |-> 0]

FactoryRaises(f) == f = FailingFactory

\* Factories offered to add_scoped where scopes are exercised: for K1 one
\* whose product has a dispose hook and one that raises, for K2 one whose
\* product has a dispose hook.
ScopedFactoryImpls ==
    [K1 |-> {Impl("factory", "Disposable", 0), FailingFactory},
     K2 |-> {Impl("factory", "Disposable", 0)}]

\* _scoped_services is a dict, held as the sequence of its (key, value)
\* items in the dict's iteration order.
\* self._scoped_services.get(type_)
CacheGet(cache, k) ==
    IF \E i \in DOMAIN cache : cache[i].key = k
    THEN cache[CHOOSE i \in DOMAIN cache : cache[i].key = k].value
    ELSE None

\* A scope that does not keep what its factory call produced.
CachePut_forgetting(cache, k, v) == cache

\* self._scoped_services[type_] = service
CachePut(cache, k, v) ==
    IF \E i \in DOMAIN cache : cache[i].key = k
    THEN [i \in DOMAIN cache |-> IF cache[i].key = k
                                  THEN [key |-> k, value |-> v] ELSE cache[i]]
    ELSE Append(cache, [key |-> k, value |-> v])

\* A scope that also keeps what the engine's resolve returned.
scope_resolve_caching_all(cache, st, svcs, sc, tr, k, n) ==
    LET r == resolve(st, svcs, sc, tr, k, n)
    IN IF CacheGet(cache, k) # None
       THEN [outcome |-> "ok", value |-> CacheGet(cache, k), invoked |-> 0,
             next |-> n, cache |-> cache]
       ELSE IF sc[k] # None
            THEN [outcome |-> "ok", value |-> Invoke(sc[k], n), invoked |-> 1,
                  next |-> n + 1, cache |-> CachePut(cache, k, Invoke(sc[k], n))]
            ELSE [outcome |-> r.outcome, value |-> r.value, invoked |-> r.invoked,
                  next |-> r.next,
                  cache |-> IF r.outcome = "ok" THEN CachePut(cache, k, r.value)
                            ELSE cache]

\* ServiceScope.resolve: the cached instance; else the product of the
\* engine's scoped factory for the key, cached; else Engine.resolve.
scope_resolve(cache, st, svcs, sc, tr, k, n) ==
    IF CacheGet(cache, k) # None
    THEN [outcome |-> "ok", value |-> CacheGet(cache, k), invoked |-> 0,
          next |-> n, cache |-> cache]
    ELSE IF sc[k] # None
         THEN IF FactoryRaises(sc[k])
              THEN [outcome |-> "raised", value |-> None, invoked |-> 1,
                    next |-> n, cache |-> cache]
              ELSE [outcome |-> "ok", value |-> Invoke(sc[k], n), invoked |-> 1,
                    next |-> n + 1, cache |-> CachePut(cache, k, Invoke(sc[k], n))]
         ELSE LET r == resolve(st, svcs, sc, tr, k, n)
              IN [outcome |-> r.outcome, value |-> r.value, invoked |-> r.invoked,
                  next |-> r.next, cache |-> cache]

\* Objects a ServiceScope.resolve call may allocate.
ScopeAllocs(cache, st, svcs, sc, tr, k) ==
    scope_resolve(cache, st, svcs, sc, tr, k, 0).next

\* The cached instances dispose() awaits a hook of, in iteration order.
RECURSIVE Hooked(_)
Hooked(cache) ==
    IF cache = <<>> THEN <<>>
    ELSE (IF HasDisposeHook(Head(cache).value) THEN <<Head(cache).value>> ELSE <<>>)
         \o Hooked(Tail(cache))

\* A dispose() that leaves the cache as it was.
CacheAfterDispose_kept(cache) == cache

\* self._scoped_services.clear()
CacheAfterDispose(cache) == <<>>

\* The record of hook calls before any is made.
NoCalls == [v \in {} |-> [calls |-> 0, raised |-> FALSE]]

\* The record of hook calls after the calls of one dispose().
AfterCalls(hc, called) ==
    LET now == {called[i].inst : i \in DOMAIN called}
        before(v) == IF v \in DOMAIN hc THEN hc[v] ELSE [calls |-> 0, raised |-> FALSE]
    IN [v \in DOMAIN hc \cup now |->
          IF v \in now
          THEN [calls |-> before(v).calls + 1,
                raised |-> before(v).raised
                           \/ \E i \in DOMAIN called : called[i].inst = v /\ called[i].raised]
          ELSE hc[v]]

\* The number of hook calls made in all.
RECURSIVE TotalCalls(_)
TotalCalls(hc) ==
    IF DOMAIN hc = {} THEN 0
    ELSE LET v == CHOOSE x \in DOMAIN hc : TRUE
         IN hc[v].calls + TotalCalls([x \in DOMAIN hc \ {v} |-> hc[x]])

\* A dispose() that goes on after a hook raised: every hook is awaited and
\* the cache cleared before the error reaches the caller.
dispose_resilient(cache, r) ==
    [outcome |-> IF r = 0 THEN "ok" ELSE "raised",
     called |-> [i \in 1..Len(Hooked(cache)) |->
                    [inst |-> Hooked(cache)[i], raised |-> (i = r)]],
     cache |-> CacheAfterDispose(cache)]

\* ServiceScope.dispose where the r-th awaited hook raises (r = 0: every
\* hook returns).  A raise leaves the loop and the method: the later hooks
\* are not awaited and clear() is not reached.
dispose(cache, r) ==
    LET call(i) == [inst |-> Hooked(cache)[i], raised |-> (i = r)]
    IN IF r = 0
       THEN [outcome |-> "ok", called |-> [i \in 1..Len(Hooked(cache)) |-> call(i)],
             cache |-> CacheAfterDispose(cache)]
       ELSE [outcome |-> "raised", called |-> [i \in 1..r |-> call(i)],
             cache |-> cache]

\* --------------------------------------------------------------- TypeFinder
\* The classes loaded in the process, by identity (the index).  name is
\* __name__; home is __module__ ("none": not a string, so that
\* __module__.startswith raises); assignable is what the check against the
\* target type yields ("raises": the check raises); abstract is
\* inspect.isabstract or ABC among the bases; generic is the type argument
\* of a base whose __origin__ is the target generic ("none": no such base).
\* The last entry is the target type of find_classes_of_type itself, a
\* concrete class: issubclass(T, T) holds.
TypeTable == <<
    [name |-> "Repo",  home |-> "app.a",  assignable |-> "yes",    abstract |-> FALSE, generic |-> "E1"],
    [name |-> "Repo",  home |-> "app.b",  assignable |-> "yes",    abstract |-> FALSE, generic |-> "E2"],
    [name |-> "Base",  home |-> "app.a",  assignable |-> "yes",    abstract |-> TRUE,  generic |-> "none"],
    [name |-> "Odd",   home |-> "app.a",  assignable |-> "raises", abstract |-> FALSE, generic |-> "none"],
    [name |-> "Other", home |-> "app.b",  assignable |-> "no",     abstract |-> FALSE, generic |-> "none"],
    [name |-> "Iface", home |-> "typing", assignable |-> "yes",    abstract |-> FALSE, generic |-> "E1"],
    [name |-> "Late",  home |-> "none",   assignable |-> "yes",    abstract |-> FALSE, generic |-> "E1"],
    [name |-> "Target", home |-> "app.b", assignable |-> "yes",    abstract |-> FALSE, generic |-> "none"] >>

TypeIds == DOMAIN TypeTable

\* The module objects of the process: members is what inspect.getmembers(
\* module, inspect.isclass) lists, in its order (a class bound to two names
\* is listed twice; an imported class is listed in the importing module
\* too); broken: getmembers raises.
ModuleTable == <<
    [members |-> <<3, 4, 1, 1>>,  broken |-> FALSE],
    [members |-> <<6, 5, 2, 1>>,  broken |-> FALSE],
    [members |-> <<2, 7, 1>>,     broken |-> FALSE],
    [members |-> <<>>,            broken |-> TRUE],
    [members |-> <<8, 1>>,        broken |-> FALSE] >>

ModuleIds == DOMAIN ModuleTable

\* self._ignore_modules, of which the model keeps one prefix.
IgnorePrefixes == {"typing"}

\* any(class_obj.__module__.startswith(m) for m in self._ignore_modules)
FromIgnoredModule(c) == TypeTable[c].home \in IgnorePrefixes

\* class_obj.__module__ is not a string: the ignore test raises.
HomeRaises(c) == TypeTable[c].home = "none"

\* A scan that looks at a class every time it meets it.
AlreadyDiscovered_never(c, discovered) == FALSE

\* if class_obj in discovered_types: continue
AlreadyDiscovered(c, discovered) == c \in discovered

\* An assignability check whose error ends the scan of the module.
CheckErrorSkipsModule_unguarded == TRUE

\* try: is_assignable = ... except Exception: continue -- the error of one
\* candidate skips that candidate only.
CheckErrorSkipsModule == FALSE

\* A filter that reports abstract classes whatever only_concrete says.
Reported_any(c, only_concrete) == TypeTable[c].assignable = "yes"

\* if is_assignable: ... skip abstract classes when only_concrete, else append.
Reported(c, only_concrete) ==
    /\ TypeTable[c].assignable = "yes"
    /\ ~(only_concrete /\ TypeTable[c].abstract)

\* The for loop over one module's classes in find_classes_of_type; acc is
\* [result, discovered]; an error outside the inner try leaves the loop.
RECURSIVE ScanClasses(_, _, _)
ScanClasses(members, only_concrete, acc) ==
    IF members = <<>> THEN acc
    ELSE LET c == Head(members)
             seen == [acc EXCEPT !.discovered = acc.discovered \cup {c}]
         IN IF AlreadyDiscovered(c, acc.discovered)
            THEN ScanClasses(Tail(members), only_concrete, acc)
            ELSE IF HomeRaises(c) THEN seen
            ELSE IF FromIgnoredModule(c)
                 THEN ScanClasses(Tail(members), only_concrete, seen)
            ELSE IF TypeTable[c].assignable = "raises"
                 THEN IF CheckErrorSkipsModule THEN seen
                      ELSE ScanClasses(Tail(members), only_concrete, seen)
            ELSE IF Reported(c, only_concrete)
                 THEN ScanClasses(Tail(members), only_concrete,
                                  [seen EXCEPT !.result = Append(seen.result, c)])
                 ELSE ScanClasses(Tail(members), only_concrete, seen)

\* The for loop over self._loaded_modules.items(): a module whose scan
\* raises is logged and the loop goes on with the next module.
RECURSIVE ScanModules(_, _, _)
ScanModules(mods, only_concrete, acc) ==
    IF mods = <<>> THEN acc
    ELSE ScanModules(Tail(mods), only_concrete,
                     IF ModuleTable[Head(mods)].broken THEN acc
                     ELSE ScanClasses(ModuleTable[Head(mods)].members, only_concrete, acc))

\* TypeFinder.find_classes_of_type(target, only_concrete)
find_classes_of_type(mods, only_concrete) ==
    ScanModules(mods, only_concrete, [result |-> <<>>, discovered |-> {}]).result

\* The filters find_generic_implementations is called with: no arg_types,
\* or one type argument to look for.
ArgFilters == {"any", "E1", "E2"}

\* A base whose __origin__ is the generic type, and whose __args__ contain
\* every type of arg_types when arg_types is given.
GenericMatch(c, arg) ==
    /\ TypeTable[c].generic # "none"
    /\ (arg = "any" \/ arg = TypeTable[c].generic)

\* The for loop over one module's classes in find_generic_implementations.
RECURSIVE ScanGeneric(_, _, _)
ScanGeneric(members, arg, acc) ==
    IF members = <<>> THEN acc
    ELSE LET c == Head(members)
             seen == [acc EXCEPT !.discovered = acc.discovered \cup {c}]
         IN IF AlreadyDiscovered(c, acc.discovered)
            THEN ScanGeneric(Tail(members), arg, acc)
            ELSE IF HomeRaises(c) THEN seen
            ELSE IF FromIgnoredModule(c) THEN ScanGeneric(Tail(members), arg, seen)
            ELSE IF GenericMatch(c, arg)
                 THEN ScanGeneric(Tail(members), arg,
                                  [seen EXCEPT !.result = Append(seen.result, c)])
                 ELSE ScanGeneric(Tail(members), arg, seen)

RECURSIVE ScanModulesGeneric(_, _, _)
ScanModulesGeneric(mods, arg, acc) ==
    IF mods = <<>> THEN acc
    ELSE ScanModulesGeneric(Tail(mods), arg,
                            IF ModuleTable[Head(mods)].broken THEN acc
                            ELSE ScanGeneric(ModuleTable[Head(mods)].members, arg, acc))

\* TypeFinder.find_generic_implementations(generic, arg_types): the
\* implementation types found (each is returned with its type arguments).
find_generic_implementations(mods, arg) ==
    ScanModulesGeneric(mods, arg, [result |-> <<>>, discovered |-> {}]).result

\* ------------------------------------------------- repository discovery
\* The classes of sys.modules whose name starts with "I", contains
\* "Repository" and is not "IRepository": the specific repository interfaces.
SpecificInterfaces == {"IE1Repository", "IE2Repository", "IE3Repository"}

\* interface_name[1:-10]
ExtractedName ==
    [IE1Repository |-> "E1", IE2Repository |-> "E2", IE3Repository |-> "E3"]

\* The names of the classes of sys.modules that neither start with "I" nor
\* end with "Repository", of which the model keeps the entity classes.
EntityTypes == {"E1", "E2"}

\* IRepository[entity_type]
GenericInterface == [E1 |-> "IRepository[E1]", E2 |-> "IRepository[E2]"]

RepoKeys == SpecificInterfaces \cup {GenericInterface[e] : e \in EntityTypes}

NoEntry == [tag |-> "none", rc |-> 0, et |-> "none"]

NoEntries == [k \in RepoKeys |-> NoEntry]

\* A registration that builds the repository at discovery and stores it.
RepositoryEntry_eager(rc, et) == [tag |-> "obj", rc |-> rc, et |-> et]

\* create_generic_factory() / create_specific_factory(): a lambda that
\* calls _create_repository_instance(rc, et) when it is invoked.
RepositoryEntry(rc, et) == [tag |-> "func", rc |-> rc, et |-> et]

\* The loop of _discover_and_register_entities over the implementations
\* find_generic_implementations(IRepository) returned (impls, in the type
\* finder's order): each is stored under IRepository[its entity] and, for
\* every specific interface whose extracted name is a known entity type,
\* under that interface with that entity type.
RECURSIVE discover_and_register_entities(_, _)
discover_and_register_entities(entries, impls) ==
    IF impls = <<>> THEN entries
    ELSE LET rc == Head(impls)
             et == TypeTable[rc].generic
             registered ==
                 [k \in RepoKeys |->
                     IF k \in SpecificInterfaces
                     THEN IF ExtractedName[k] \in EntityTypes
                          THEN RepositoryEntry(rc, ExtractedName[k])
                          ELSE entries[k]
                     ELSE IF k = GenericInterface[et] THEN RepositoryEntry(rc, et)
                          ELSE entries[k]]
         IN discover_and_register_entities(registered, Tail(impls))

\* db_context.session: the session of a database context.
SessionOf(ctx) == Obj("Session", ctx.serial)

\* _create_repository_instance(rc, et): the session is what get_service
\* finds under AsyncSession; else the session of what it finds under
\* IDbContext (an error of that lookup is logged); else a new in-memory
\* session.  Returns rc(session, et), a new object.
create_repository_instance(svcs, sc, tr, entry, n) ==
    LET s == get_service(svcs, sc, tr, "AsyncSession", n)
        db == get_service(svcs, sc, tr, "IDbContext", s.next)
        session == IF s.outcome = "ok" THEN s.value
                   ELSE IF db.outcome = "ok" THEN SessionOf(db.value)
                   ELSE Obj("MemorySession", db.next)
        n2 == IF s.outcome = "ok" THEN s.next
              ELSE IF db.outcome = "ok" THEN db.next ELSE db.next + 1
    IN IF s.outcome = "scoped_error"
       THEN [outcome |-> "scoped_error", value |-> None, invoked |-> 1,
             next |-> n, session |-> None]
       ELSE [outcome |-> "ok", value |-> Obj(TypeTable[entry.rc].name, n2),
             invoked |-> 1, next |-> n2 + 1, session |-> session]

\* Engine.resolve of a repository interface: RuntimeError when not started,
\* ValueError when nothing is stored under it, otherwise get_service calls
\* the stored callable (anything else would be returned as stored).
resolve_repository(st, svcs, sc, tr, entry, n) ==
    IF ResolveRequiresStart(st)
    THEN [outcome |-> "not_started", value |-> None, invoked |-> 0, next |-> n,
          session |-> None]
    ELSE IF entry.tag = "none"
    THEN [outcome |-> "not_registered", value |-> None, invoked |-> 0, next |-> n,
          session |-> None]
    ELSE IF entry.tag = "func"
    THEN create_repository_instance(svcs, sc, tr, entry, n)
    ELSE [outcome |-> "ok", value |-> Obj(TypeTable[entry.rc].name, 0), invoked |-> 0,
          next |-> n, session |-> None]

\* -------------------------------------------------------------- StartupTask
\* The task types loaded in the process: name is the class's __name__,
\* order and enabled its class attributes.  TaskB and TaskC keep the default
\* order, TaskD is declared disabled.
TaskClass == <<
    [name |-> "TaskA", order |-> 10, enabled |-> TRUE],
    [name |-> "TaskB", order |-> DefaultOrder, enabled |-> TRUE],
    [name |-> "TaskC", order |-> DefaultOrder, enabled |-> TRUE],
    [name |-> "TaskD", order |-> 10, enabled |-> FALSE] >>

TaskClassIds == DOMAIN TaskClass

TaskNames == {TaskClass[c].name : c \in TaskClassIds}

\* StartupTask.__init__: _is_enabled starts as the class's enabled.
NewTask(c, n) == [cls |-> c, serial |-> n, is_enabled |-> TaskClass[c].enabled]

\* task.name, task.order
TaskName(t) == TaskClass[t.cls].name

TaskOrder(t) == TaskClass[t.cls].order

\* task.enabled: no instance attribute of that name is ever set, so the
\* lookup yields the class attribute.
TaskEnabled(t) == TaskClass[t.cls].enabled

\* A task's section of the startup_tasks configuration: its enabled entry
\* is "absent", "true" or "false".
CfgVals == {"absent", "true", "false"}

Configs == [TaskNames -> CfgVals]

NoConfig == [nm \in TaskNames |-> "absent"]

\* StartupTask.configure
configure(t, entry) ==
    IF entry # "absent" THEN [t EXCEPT !.is_enabled = (entry = "true")] ELSE t

\* ------------------------------------------------------ StartupTaskExecutor
\* _tasks is a dict keyed by task name, held as the sequence of its values
\* in the dict's iteration order: assigning an existing key keeps the key's
\* position, a new key goes last.
\* A task table that keeps every added instance.
add_task_appending(ts, t) == Append(ts, t)

add_task(ts, t) ==
    IF \E i \in 1..Len(ts) : TaskName(ts[i]) = TaskName(t)
    THEN [i \in 1..Len(ts) |-> IF TaskName(ts[i]) = TaskName(t) THEN t ELSE ts[i]]
    ELSE Append(ts, t)

\* configure_tasks: every held task is configured from the section of its name.
configure_tasks(ts, cfg) ==
    [i \in 1..Len(ts) |-> configure(ts[i], cfg[TaskName(ts[i])])]

\* [task for task in self._tasks.values() if task.enabled]
EnabledTasks(ts) == SelectSeq(ts, TaskEnabled)

\* A comparison that puts a task before the earlier tasks of its own order.
SortsBefore_unstable(t, u) == TaskOrder(t) <= TaskOrder(u)

\* The comparison of sorted(key=lambda t: t.order): t goes before u.
SortsBefore(t, u) == TaskOrder(t) < TaskOrder(u)

RECURSIVE InsertByOrder(_, _)
InsertByOrder(t, s) ==
    IF s = <<>> THEN <<t>>
    ELSE IF SortsBefore(t, Head(s)) THEN <<t>> \o s
    ELSE <<Head(s)>> \o InsertByOrder(t, Tail(s))

\* sorted(): stable, ascending.
RECURSIVE SortedByOrder(_)
SortedByOrder(s) ==
    IF s = <<>> THEN <<>>
    ELSE InsertByOrder(s[Len(s)], SortedByOrder(SubSeq(s, 1, Len(s) - 1)))

\* The list execute_all_async iterates.
sorted_tasks(ts) == SortedByOrder(EnabledTasks(ts))

\* for task in sorted_tasks: await task.execute() -- the next execute()
\* begins only when none is in flight.
CanBegin(run) == run = {}

\* A loop that goes on with the next task after an execute() raised.
RemainingAfterRaise_continuing(q) == q

\* What is left of the pass when an execute() raises: the exception leaves
\* the loop.
RemainingAfterRaise(q) == <<>>

\* add_task for each element of a sequence of new task instances.
RECURSIVE AddAll(_, _)
AddAll(ts, new) ==
    IF new = <<>> THEN ts ELSE AddAll(add_task(ts, Head(new)), Tail(new))

\* The type finder's result for StartupTask: a sequence of distinct classes.
DiscoveryOrders(ids) ==
    {d \in [1..Cardinality(ids) -> ids] : \A i, j \in DOMAIN d : i # j => d[i] # d[j]}

\* A discovery that hands every start() the same instance of a class.
Instantiate_reused(d, n) == [i \in DOMAIN d |-> NewTask(d[i], d[i])]

\* task_class() for each discovered class, serials from n.
Instantiate(d, n) == [i \in DOMAIN d |-> NewTask(d[i], n + i - 1)]

\* ------------------------------------------------------------------- state
VARIABLES
    instance,      \* Engine._instance: 0 for None, else the engine's id
    created,       \* number of Engine objects constructed so far
    initReturns,   \* the ids initialize() has returned so far
    started,       \* Engine._started
    services,      \* ServiceCollection._services
    scoped,        \* ServiceCollection._scoped_factories
    transient,     \* ServiceCollection._transient_factories
    repo_factories, \* the entries of ServiceCollection._services under the
                   \* repository interfaces, written by repository discovery
    nextObj,       \* next free object serial
    hasExecutor,   \* Engine._startup_task_executor is not None
    tasks,         \* StartupTaskExecutor._tasks, in dict order
    nextTask,      \* next free task-instance serial
    queue,         \* the part of sorted_tasks the running pass has not begun
    running,       \* the tasks whose execute() is in flight
    log,           \* begin / end / raise events of the current or last pass
    passKind,      \* "none", "start" (Engine.start) or "exec" (a direct pass)
    executed,      \* the task instances (serials) whose execute() a pass of
                   \* Engine.start has invoked, over the process's lifetime
    lastResult,    \* what the last call returned or raised
    repository_registrations,  \* Engine._repository_registrations (its keys)
    cleaned,       \* the task instances whose cleanup() has been awaited
    stopLog,       \* the failures the last stop() logged as warnings
    scopeCache,    \* per created ServiceScope, its _scoped_services in dict order
    hookCalls,     \* per instance whose dispose hook was awaited: how often, and
                   \* whether a call raised
    loaded_modules, \* TypeFinder._loaded_modules: the indexed modules, in dict order
    found          \* what the last find_* call of the type finder returned

vars == <<instance, created, initReturns, started, services, scoped, transient,
          repo_factories,
          nextObj, hasExecutor, tasks, nextTask, queue, running, log, passKind,
          executed, lastResult, repository_registrations, cleaned, stopLog, scopeCache,
          hookCalls, loaded_modules, found>>

stopVars == <<repository_registrations, cleaned, stopLog>>

scopeVars == <<scopeCache, hookCalls>>

finderVars == <<loaded_modules, found>>

\* The state outside the engine life cycle proper.
otherVars == <<stopVars, scopeVars, finderVars>>

containerVars == <<services, scoped, transient, repo_factories>>

executorVars == <<hasExecutor, tasks, nextTask>>

passVars == <<queue, running, log, passKind, executed>>

classVars == <<instance, created, initReturns>>

Result(op, k, outcome, value, invoked, arg) ==
    [op |-> op, key |-> k, outcome |-> outcome, value |-> value,
     invoked |-> invoked, arg |-> arg, inTask |-> running # {}]

Event(ev, t) == [ev |-> ev, task |-> t]

\* The error object an execute() of task t raises.
ErrorOf(t) == Obj("Error", t.serial)

\* A caller's code is running: no pass is in progress, or a task's execute()
\* is in flight and its body makes the call.
CallerActive == passKind = "none" \/ running # {}

CallerIdle == passKind = "none"

\* Serials n .. n + count - 1 are within the bound.
CanAlloc(n, count) == n + count - 1 <= MaxObjs

InitCommon ==
    /\ started = FALSE
    /\ services = EmptyTable
    /\ scoped = EmptyTable
    /\ transient = EmptyTable
    /\ repo_factories = NoEntries
    /\ nextObj = 1
    /\ tasks = <<>>
    /\ nextTask = 1
    /\ queue = <<>>
    /\ running = {}
    /\ log = <<>>
    /\ passKind = "none"
    /\ executed = {}
    /\ lastResult = Result("none", "none", "ok", None, 0, None)
    /\ repository_registrations = {}
    /\ cleaned = {}
    /\ stopLog = {}
    /\ scopeCache = <<>>
    /\ hookCalls = NoCalls
    /\ found = <<>>

\* The process before Engine.initialize().
Init ==
    /\ InitCommon
    /\ instance = 0
    /\ created = 0
    /\ initReturns = {}
    /\ hasExecutor = FALSE
    /\ loaded_modules = <<>>

\* --------------------------------------------------------- Engine (class)
\* A slot that is replaced by every call.
InitializeSlot_replacing(inst, c) == c + 1

\* The slot after Engine.initialize(): a new engine only when it is None.
InitializeSlot(inst, c) == IF inst = 0 THEN c + 1 ELSE inst

\* Engine.initialize()
Initialize ==
    /\ CallerIdle
    /\ LET slot == InitializeSlot(instance, created) IN
        /\ (slot # instance => created < MaxEngines)
        /\ instance' = slot
        /\ created' = IF slot # instance THEN created + 1 ELSE created
        /\ initReturns' = initReturns \cup {slot}
        /\ lastResult' = Result("initialize", "none", "ok", EngineObj(slot), 0, None)
    /\ UNCHANGED <<otherVars, started, containerVars, nextObj, executorVars, passVars>>

\* A current() that only looks at the class-level slot.
current_unstarted(inst, st) ==
    IF inst = 0 THEN [outcome |-> "not_initialized", value |-> None]
    ELSE [outcome |-> "ok", value |-> EngineObj(inst)]

\* Engine.current()
current(inst, st) ==
    IF inst = 0 THEN [outcome |-> "not_initialized", value |-> None]
    ELSE IF ~st THEN [outcome |-> "not_started", value |-> None]
    ELSE [outcome |-> "ok", value |-> EngineObj(inst)]

Current ==
    /\ CallerActive
    /\ LET r == current(instance, started) IN
        lastResult' = Result("current", "none", r.outcome, r.value, 0, None)
    /\ UNCHANGED <<otherVars, classVars, started, containerVars, nextObj, executorVars, passVars>>

\* ------------------------------------------------- container and resolution
\* Engine.register(k, impl) / ServiceCollection.add_singleton(k, impl).  An
\* instance is built by the caller first.
Register(k, kind, c) ==
    /\ instance # 0
    /\ CallerActive
    /\ LET n == nextObj + CallerAllocs(kind)
           impl == Impl(kind, c, nextObj)
           r == add_singleton(services, k, impl, n)
       IN /\ CanAlloc(nextObj, CallerAllocs(kind) + AddAllocs(impl))
          /\ services' = r.table
          /\ nextObj' = r.next
          /\ lastResult' = Result("register", k, "ok", r.table[k], r.invoked, impl)
    /\ UNCHANGED <<otherVars, classVars, started, scoped, transient, repo_factories,
                 executorVars, passVars>>

\* ServiceCollection.add_scoped(k, factory)
AddScoped(k, f) ==
    /\ instance # 0
    /\ CallerIdle
    /\ scoped' = add_scoped(scoped, k, f)
    /\ lastResult' = Result("add_scoped", k, "ok", None, 0, f)
    /\ UNCHANGED <<otherVars, classVars, started, services, transient, repo_factories, nextObj,
                 executorVars, passVars>>

\* ServiceCollection.add_transient(k, factory)
AddTransient(k, f) ==
    /\ instance # 0
    /\ CallerIdle
    /\ transient' = add_transient(transient, k, f)
    /\ lastResult' = Result("add_transient", k, "ok", None, 0, f)
    /\ UNCHANGED <<otherVars, classVars, started, services, scoped, repo_factories, nextObj,
                 executorVars, passVars>>

\* ServiceCollection.get_service(k) on the engine's container.
GetService(k) ==
    /\ instance # 0
    /\ CallerIdle
    /\ CanAlloc(nextObj, GetAllocs(services, scoped, transient, k))
    /\ LET r == get_service(services, scoped, transient, k, nextObj) IN
        /\ nextObj' = r.next
        /\ lastResult' = Result("get_service", k, r.outcome, r.value, r.invoked, None)
    /\ UNCHANGED <<otherVars, classVars, started, containerVars, executorVars, passVars>>

\* Engine.resolve(k)
Resolve(k) ==
    /\ instance # 0
    /\ CallerActive
    /\ CanAlloc(nextObj, GetAllocs(services, scoped, transient, k))
    /\ LET r == resolve(started, services, scoped, transient, k, nextObj) IN
        /\ nextObj' = r.next
        /\ lastResult' = Result("resolve", k, r.outcome, r.value, r.invoked, None)
    /\ UNCHANGED <<otherVars, classVars, started, containerVars, executorVars, passVars>>

\* ------------------------------------------------------------ Engine.start
\* A start() without the early return.
StartShortCircuits_never(st) == FALSE

\* if self._started: return
StartShortCircuits(st) == st

\* The database context DbContext(db_config) built by engine inst's start.
DbContextObj(inst) == Obj("DbContext", inst)

\* _register_core_services: the engine registers itself under IEngine and,
\* when the application configuration carries a database configuration
\* (db), a new database context under IDbContext and that context's
\* session under AsyncSession (of the core registrations the model keeps
\* these three; the lambda handed to add_singleton for AsyncSession is
\* invoked there and its product, the session, stored).
register_core_services(svcs, inst, db, n) ==
    LET withEngine == add_singleton(svcs, "IEngine", EngineObj(inst), n).table
        withDb == add_singleton(withEngine, "IDbContext", DbContextObj(inst), n).table
    IN IF db THEN add_singleton(withDb, "AsyncSession", SessionOf(DbContextObj(inst)), n).table
       ELSE withEngine

\* The started flag set only after the startup tasks have run.
StartedDuringTasks_late == FALSE

\* self._started = True, set before the startup tasks are executed.
StartedDuringTasks == TRUE

\* A failure handler that leaves the started flag set.
StartedAfterFailure_kept == TRUE

\* except Exception: self._started = False; raise
StartedAfterFailure == FALSE

\* What configure_tasks gets from start(): the __dict__ of the AppConfig
\* loaded from the configuration document.  AppConfig.load keeps the
\* document's app and database sections only, so the dictionary has no
\* 'startup_tasks' entry and config.get('startup_tasks', {}) is empty
\* whatever the document's startup_tasks section (doc) says.
loaded_startup_tasks(doc) == NoConfig

\* start() on a started engine returns at once.
StartNoop ==
    /\ instance # 0
    /\ CallerActive
    /\ StartShortCircuits(started)
    /\ lastResult' = Result("start", "none", "noop", None, 0, None)
    /\ UNCHANGED <<otherVars, classVars, started, containerVars, nextObj, executorVars, passVars>>

\* start() up to its first await: core services (db: the application
\* configuration carries a database configuration), the started flag, a new
\* executor holding an instance of every discovered task class (d, in the
\* type finder's order), their configuration from the loaded AppConfig (cfg
\* is the startup_tasks section of the configuration document), and the
\* sorted list of the pass.  With nothing to execute the call returns here.
StartBegin(d, cfg, db) ==
    /\ instance # 0
    /\ CallerIdle
    /\ ~StartShortCircuits(started)
    /\ nextTask + Len(d) - 1 <= MaxTaskSerial
    /\ LET ts == configure_tasks(AddAll(<<>>, Instantiate(d, nextTask)),
                                 loaded_startup_tasks(cfg))
           q == sorted_tasks(ts)
       IN /\ services' = register_core_services(services, instance, db, nextObj)
          /\ repo_factories' = discover_and_register_entities(
                                   repo_factories,
                                   find_generic_implementations(loaded_modules, "any"))
          /\ hasExecutor' = TRUE
          /\ tasks' = ts
          /\ nextTask' = nextTask + Len(d)
          /\ queue' = q
          /\ running' = {}
          /\ log' = <<>>
          /\ IF q = <<>>
             THEN /\ passKind' = "none"
                  /\ started' = TRUE
                  /\ lastResult' = Result("start", "none", "ok", None, 0, None)
             ELSE /\ passKind' = "start"
                  /\ started' = StartedDuringTasks
                  /\ lastResult' = Result("start", "none", "pending", None, 0, None)
    /\ UNCHANGED <<otherVars, classVars, scoped, transient, nextObj, executed>>

\* Engine.resolve(k) for a repository interface k; the result carries the
\* session the repository was constructed with.
ResolveRepository(k) ==
    /\ instance # 0
    /\ CallerActive
    /\ LET r == resolve_repository(started, services, scoped, transient,
                                   repo_factories[k], nextObj)
       IN /\ CanAlloc(nextObj, r.next - nextObj)
          /\ nextObj' = r.next
          /\ lastResult' = Result("resolve", k, r.outcome, r.value, r.invoked, r.session)
    /\ UNCHANGED <<otherVars, classVars, started, containerVars, executorVars, passVars>>

\* engine.add_startup_task(c()): the engine's executor, created here when
\* the engine has none yet, stores the task under its name.
AddStartupTask(c) ==
    /\ instance # 0
    /\ CallerIdle
    /\ nextTask <= MaxTaskSerial
    /\ hasExecutor' = TRUE
    /\ tasks' = add_task(IF hasExecutor THEN tasks ELSE <<>>, NewTask(c, nextTask))
    /\ nextTask' = nextTask + 1
    /\ lastResult' = Result("add_startup_task", TaskClass[c].name, "ok", None, 0, None)
    /\ UNCHANGED <<otherVars, classVars, started, containerVars, nextObj, passVars>>

\* ------------------------------------------------ the pass over sorted_tasks
\* The loop awaits the next task's execute().
TaskBegin ==
    /\ passKind # "none"
    /\ queue # <<>>
    /\ CanBegin(running)
    /\ running' = running \cup {Head(queue)}
    /\ queue' = Tail(queue)
    /\ log' = Append(log, Event("begin", Head(queue)))
    /\ executed' = IF passKind = "start" THEN executed \cup {Head(queue).serial}
                   ELSE executed
    /\ UNCHANGED <<otherVars, classVars, started, containerVars, nextObj, executorVars,
                   passKind, lastResult>>

PassOp == IF passKind = "start" THEN "start" ELSE "execute_all_async"

\* A task's execute() returns; after the last one the pass, and with it
\* start(), returns: start() does not touch the started flag again.
TaskComplete(t) ==
    /\ t \in running
    /\ running' = running \ {t}
    /\ log' = Append(log, Event("end", t))
    /\ IF queue = <<>> /\ running' = {}
       THEN /\ passKind' = "none"
            /\ started' = IF passKind = "start" /\ ~StartedDuringTasks THEN TRUE
                          ELSE started
            /\ lastResult' = [Result(PassOp, "none", "ok", None, 0, None)
                                EXCEPT !.inTask = FALSE]
       ELSE UNCHANGED <<passKind, started, lastResult>>
    /\ UNCHANGED <<otherVars, classVars, containerVars, nextObj, executorVars, queue,
                   executed>>

\* A task's execute() raises: the exception leaves the loop and reaches the
\* caller of the pass; start() clears the started flag on its way.
TaskRaise(t) ==
    /\ t \in running
    /\ running' = running \ {t}
    /\ log' = Append(log, Event("raise", t))
    /\ queue' = RemainingAfterRaise(queue)
    /\ passKind' = IF queue' = <<>> /\ running' = {} THEN "none" ELSE passKind
    /\ started' = IF passKind = "start" THEN StartedAfterFailure ELSE started
    /\ lastResult' = [Result(PassOp, "none", "raised", ErrorOf(t), 0, None)
                        EXCEPT !.inTask = FALSE]
    /\ UNCHANGED <<otherVars, classVars, containerVars, nextObj, executorVars, executed>>

\* ------------------------------------------------------------- Engine.stop
\* What await db_context.close() does.
CloseOutcomes == {"ok", "raised"}

\* self._startup_task_executor.cleanup(): StartupTaskExecutor defines no
\* cleanup, so the attribute lookup raises AttributeError and no task's
\* cleanup() is awaited.
executor_cleanup(ts) == [outcome |-> "raised", cleaned |-> {}]

\* Handlers that let a teardown failure reach the caller of stop().
StopFailureEscapes_reraised(failures) == failures # {}

\* except Exception as e: logger.warning(...) around the close of the
\* database context and around the executor's cleanup.
StopFailureEscapes(failures) == FALSE

\* stop() returns at once on an engine that is not started.  Otherwise it
\* looks up IDbContext in the container and closes what it finds, calls the
\* executor's cleanup, logs what either raised, and resets the three
\* container tables, the started flag and the repository registrations.
\* The executor object and the class-level slot are left as they are.
\* Task bodies do not call stop(): it is a call of the engine's owner.
stop ==
    /\ instance # 0
    /\ IF ~started
       THEN /\ lastResult' = Result("stop", "none", "noop", None, 0, None)
            /\ UNCHANGED <<started, containerVars, nextObj, stopVars>>
       ELSE /\ CanAlloc(nextObj, GetAllocs(services, scoped, transient, "IDbContext"))
            /\ LET db == get_service(services, scoped, transient, "IDbContext", nextObj)
                   cl == executor_cleanup(tasks)
               IN \E close \in IF db.outcome = "ok" THEN CloseOutcomes ELSE {"none"} :
                   LET failures ==
                           (IF db.outcome = "scoped_error" \/ close = "raised"
                            THEN {"close"} ELSE {})
                           \cup (IF hasExecutor /\ cl.outcome = "raised"
                                 THEN {"cleanup"} ELSE {})
                   IN /\ nextObj' = db.next
                      /\ stopLog' = failures
                      /\ cleaned' = IF hasExecutor THEN cleaned \cup cl.cleaned
                                    ELSE cleaned
                      /\ IF StopFailureEscapes(failures)
                         THEN /\ lastResult' = Result("stop", "none", "raised",
                                                      None, 0, None)
                              /\ UNCHANGED <<started, containerVars,
                                             repository_registrations>>
                         ELSE /\ services' = EmptyTable
                              /\ repo_factories' = NoEntries
                              /\ scoped' = EmptyTable
                              /\ transient' = EmptyTable
                              /\ started' = FALSE
                              /\ repository_registrations' = {}
                              /\ lastResult' = Result("stop", "none", "ok",
                                                      None, 0, None)
    /\ UNCHANGED <<classVars, executorVars, passVars, scopeVars, finderVars>>

\* await engine.stop() by the engine's owner, no pass being in progress.
Stop == CallerIdle /\ stop

\* await engine.stop() by another coroutine of the event loop while start()
\* is suspended in a task's execute(): the pass of start() goes on
\* afterwards with the list it sorted.
StopDuringTasks ==
    /\ passKind = "start"
    /\ running # {}
    /\ stop

\* ----------------------------------------- StartupTaskExecutor used directly
\* executor.add_task(c())
AddTask(c) ==
    /\ hasExecutor
    /\ CallerIdle
    /\ nextTask <= MaxAdds
    /\ tasks' = add_task(tasks, NewTask(c, nextTask))
    /\ nextTask' = nextTask + 1
    /\ lastResult' = Result("add_task", TaskClass[c].name, "ok", None, 0, None)
    /\ UNCHANGED <<otherVars, classVars, started, containerVars, nextObj, hasExecutor, passVars>>

\* executor.configure_tasks({"startup_tasks": cfg})
ConfigureTasks(cfg) ==
    /\ hasExecutor
    /\ CallerIdle
    /\ tasks' = configure_tasks(tasks, cfg)
    /\ lastResult' = Result("configure_tasks", "none", "ok", None, 0, None)
    /\ UNCHANGED <<otherVars, classVars, started, containerVars, nextObj, hasExecutor, nextTask,
                   passVars>>

\* executor.execute_all_async() up to its first await.
ExecuteAll ==
    /\ hasExecutor
    /\ CallerIdle
    /\ LET q == sorted_tasks(tasks) IN
        /\ queue' = q
        /\ running' = {}
        /\ log' = <<>>
        /\ passKind' = IF q = <<>> THEN "none" ELSE "exec"
        /\ lastResult' = Result("execute_all_async", "none",
                                IF q = <<>> THEN "ok" ELSE "pending", None, 0, None)
    /\ UNCHANGED <<otherVars, classVars, started, containerVars, nextObj, executorVars,
                   executed>>

\* ----------------------------------------------------------- ServiceScope
ScopeObj(s) == Obj("Scope", s)

\* Engine.create_scope()
CreateScope ==
    /\ instance # 0
    /\ CallerIdle
    /\ Len(scopeCache) < MaxScopes
    /\ scopeCache' = Append(scopeCache, <<>>)
    /\ lastResult' = Result("create_scope", "none", "ok", ScopeObj(Len(scopeCache) + 1),
                            0, None)
    /\ UNCHANGED <<stopVars, finderVars, hookCalls, classVars, started, containerVars, nextObj,
                   executorVars, passVars>>

\* scope.resolve(k) on the s-th scope created.
ScopeResolve(s, k) ==
    /\ s \in DOMAIN scopeCache
    /\ CallerIdle
    /\ nextObj + ScopeAllocs(scopeCache[s], started, services, scoped, transient, k) - 1
           <= MaxScopeObjs
    /\ LET r == scope_resolve(scopeCache[s], started, services, scoped, transient,
                              k, nextObj)
       IN /\ nextObj' = r.next
          /\ scopeCache' = [scopeCache EXCEPT ![s] = r.cache]
          /\ lastResult' = Result("scope_resolve", k, r.outcome, r.value, r.invoked,
                                  ScopeObj(s))
    /\ UNCHANGED <<stopVars, finderVars, hookCalls, classVars, started, containerVars,
                   executorVars, passVars>>

\* await scope.dispose() on the s-th scope created; the r-th hook raises.
ScopeDispose(s, r) ==
    /\ s \in DOMAIN scopeCache
    /\ CallerIdle
    /\ r \in 0..Len(Hooked(scopeCache[s]))
    /\ LET d == dispose(scopeCache[s], r)
       IN /\ TotalCalls(hookCalls) + Len(d.called) <= MaxHookCalls
          /\ hookCalls' = AfterCalls(hookCalls, d.called)
          /\ scopeCache' = [scopeCache EXCEPT ![s] = d.cache]
          /\ lastResult' = Result("dispose", "none", d.outcome, None, 0, ScopeObj(s))
    /\ UNCHANGED <<stopVars, finderVars, classVars, started, containerVars, nextObj,
                   executorVars, passVars>>

\* ------------------------------------------------------------- TypeFinder
\* type_finder.find_classes_of_type(target, only_concrete)
FindClassesOfType(only_concrete) ==
    /\ CallerIdle
    /\ found' = find_classes_of_type(loaded_modules, only_concrete)
    /\ lastResult' = Result("find_classes_of_type",
                            IF only_concrete THEN "concrete" ELSE "all", "ok", None, 0, None)
    /\ UNCHANGED <<stopVars, scopeVars, loaded_modules, classVars, started,
                   containerVars, nextObj, executorVars, passVars>>

\* type_finder.find_generic_implementations(generic, arg_types)
FindGenericImplementations(arg) ==
    /\ CallerIdle
    /\ found' = find_generic_implementations(loaded_modules, arg)
    /\ lastResult' = Result("find_generic_implementations", arg, "ok", None, 0, None)
    /\ UNCHANGED <<stopVars, scopeVars, loaded_modules, classVars, started,
                   containerVars, nextObj, executorVars, passVars>>

\* ---------------------------------------------------------- specifications
\* The task classes the type finder reports to Engine.start.
Discovered == {1, 2, 4}

\* The task classes whose instances callers hand to add_startup_task: one
\* the type finder does not report.
AddedClasses == TaskClassIds \ Discovered

\* The startup_tasks sections supplied: TaskA and TaskD may carry an enabled
\* entry, TaskB and TaskC carry none.
StartConfigs == {cfg \in Configs : cfg["TaskB"] = "absent" /\ cfg["TaskC"] = "absent"}

\* The engine's life cycle, with the calls task bodies make in execute(),
\* in a process whose configuration carries a database configuration.
Next ==
    \/ Initialize
    \/ Current
    \/ Register("K1", "instance", "Plain")
    \/ \E k \in {"IEngine", "K1"} : Resolve(k)
    \/ StartNoop
    \/ \E d \in DiscoveryOrders(Discovered), cfg \in StartConfigs : StartBegin(d, cfg, TRUE)
    \/ \E c \in AddedClasses : AddStartupTask(c)
    \/ TaskBegin
    \/ \E t \in running : TaskComplete(t)
    \/ \E t \in running : TaskRaise(t)
    \/ Stop

Spec == Init /\ [][Next]_vars

\* The container behind a started or stopped engine, in a process with no
\* startup task class and no database configuration.
NextContainer ==
    \/ Initialize
    \/ \E k \in UserKeys, kind \in ImplKinds, c \in ServiceClasses : Register(k, kind, c)
    \/ \E k \in UserKeys, f \in FactoryImpls : AddScoped(k, f)
    \/ \E k \in UserKeys, f \in FactoryImpls : AddTransient(k, f)
    \/ \E k \in Keys \ SessionKeys : GetService(k)
    \/ \E k \in Keys \ SessionKeys : Resolve(k)
    \/ StartNoop
    \/ \E d \in DiscoveryOrders({}) : StartBegin(d, NoConfig, FALSE)
    \/ Stop

SpecContainer == Init /\ [][NextContainer]_vars

\* Callers interleaved at the await points of start(): while a task's
\* execute() is suspended another coroutine calls start() or stop().  A
\* start() that gets past the started check begins only when no pass is in
\* progress.
NextInterleaved ==
    \/ Initialize
    \/ StartNoop
    \/ \E d \in DiscoveryOrders(Discovered) : StartBegin(d, NoConfig, TRUE)
    \/ TaskBegin
    \/ \E t \in running : TaskComplete(t)
    \/ \E t \in running : TaskRaise(t)
    \/ Stop
    \/ StopDuringTasks

SpecInterleaved == Init /\ [][NextInterleaved]_vars

\* Scopes of an engine whose container holds scoped factories.
NextScope ==
    \/ Initialize
    \/ \E k \in UserKeys : \E f \in ScopedFactoryImpls[k] : AddScoped(k, f)
    \/ CreateScope
    \/ \E s \in 1..MaxScopes, k \in UserKeys : ScopeResolve(s, k)
    \/ \E s \in 1..MaxScopes, r \in 0..MaxScopeObjs : ScopeDispose(s, r)

SpecScope == Init /\ [][NextScope]_vars

\* Scopes of a started engine whose container holds a singleton, transient
\* factories and scoped factories, all of a class with a dispose hook.
NextScopeRoot ==
    \/ Initialize
    \/ Register("K1", "instance", "Disposable")
    \/ AddTransient("K1", Impl("factory", "Disposable", 0))
    \/ AddScoped("K2", Impl("factory", "Disposable", 0))
    \/ \E d \in DiscoveryOrders({}) : StartBegin(d, NoConfig, FALSE)
    \/ CreateScope
    \/ \E s \in 1..MaxScopes, k \in UserKeys : ScopeResolve(s, k)
    \/ \E s \in 1..MaxScopes, r \in 0..MaxScopeObjs : ScopeDispose(s, r)

SpecScopeRoot == Init /\ [][NextScopeRoot]_vars

\* A TypeFinder whose index holds up to MaxModules entries, each naming one
\* of the process's modules (a module may be indexed under several names).
ModuleIndexes ==
    UNION {[1..n -> ModuleIds] : n \in 0..MaxModules}

InitFinder ==
    /\ InitCommon
    /\ instance = 0
    /\ created = 0
    /\ initReturns = {}
    /\ hasExecutor = FALSE
    /\ loaded_modules \in ModuleIndexes

NextFinder ==
    \/ \E only_concrete \in BOOLEAN : FindClassesOfType(only_concrete)
    \/ \E arg \in ArgFilters : FindGenericImplementations(arg)

SpecFinder == InitFinder /\ [][NextFinder]_vars

\* Repository discovery and resolution: an engine whose type finder indexed
\* some of the process's modules, with or without a database configuration;
\* the owner may register a database context of its own.
InitRepo ==
    /\ InitCommon
    /\ instance = 0
    /\ created = 0
    /\ initReturns = {}
    /\ hasExecutor = FALSE
    /\ loaded_modules \in UNION {[1..n -> ModuleIds] : n \in 0..MaxRepoModules}

NextRepo ==
    \/ Initialize
    \/ \E d \in DiscoveryOrders({}), db \in BOOLEAN : StartBegin(d, NoConfig, db)
    \/ Register("IDbContext", "instance", "DbContext")
    \/ \E k \in RepoKeys : ResolveRepository(k)
    \/ Stop

SpecRepo == InitRepo /\ [][NextRepo]_vars

\* A StartupTaskExecutor used on its own.
InitExec ==
    /\ InitCommon
    /\ instance = 0
    /\ created = 0
    /\ initReturns = {}
    /\ hasExecutor = TRUE
    /\ loaded_modules = <<>>

NextExec ==
    \/ \E c \in TaskClassIds : AddTask(c)
    \/ \E cfg \in StartConfigs : ConfigureTasks(cfg)
    \/ ExecuteAll
    \/ TaskBegin
    \/ \E t \in running : TaskComplete(t)
    \/ \E t \in running : TaskRaise(t)

SpecExec == InitExec /\ [][NextExec]_vars

\* ------------------------------------------------------------------ claims
LastEvent == log[Len(log)]

\* C1: every call to Engine.initialize() returns the identical instance: all
\* the values returned so far are the one engine held in the class-level
\* slot, which is therefore never replaced once set.
C1_SingletonIdentity == initReturns # {} => initReturns = {instance}

\* initialize() is called again after a start() that failed.
C1_Witness ==
    /\ lastResult.op = "initialize"
    /\ lastResult.value = EngineObj(instance)
    /\ ~started
    /\ log # <<>>
    /\ LastEvent.ev = "raise"

\* The container holds a registration of some kind for k.
Registered(k) == services[k] # None \/ scoped[k] # None \/ transient[k] # None

\* C2: Engine.resolve(k) raises the not-started error whenever the started
\* flag is false, also for a registered key; on a started engine it raises
\* the not-registered error exactly when no table holds k; a resolve that
\* raises either error leaves the container tables unchanged.
C2_ResolveErrors ==
    [][\A k \in Keys : Resolve(k) =>
        /\ (~started => lastResult'.outcome = "not_started")
        /\ (started => (lastResult'.outcome = "not_registered" <=> ~Registered(k)))
        /\ (lastResult'.outcome \in {"not_started", "not_registered"}
               => UNCHANGED containerVars)]_vars

\* resolve() of a key registered through register() raised not-started.
C2_Witness ==
    /\ lastResult.op = "resolve"
    /\ lastResult.outcome = "not_started"
    /\ lastResult.key \in UserKeys
    /\ services[lastResult.key] # None

\* C3: for a key registered as a singleton the type or factory is invoked
\* exactly once, at registration, and every later resolve of the key on a
\* started engine returns the stored instance itself and invokes nothing.
C3_SingletonResolvedOnce ==
    /\ (lastResult.op = "register" /\ lastResult.arg.tag \in {"type", "func"}
           => lastResult.invoked = 1)
    /\ (lastResult.op = "resolve" /\ lastResult.outcome # "not_started"
        /\ services[lastResult.key] # None
           => /\ lastResult.outcome = "ok"
              /\ lastResult.value = services[lastResult.key]
              /\ lastResult.invoked = 0)

\* C4: get_service(k) returns the value the most recent add_singleton for k
\* stored, and an add_singleton for one key leaves the value returned for
\* every other key as it was.
C4_LastWriteWins ==
    /\ [](lastResult.op = "get_service" /\ services[lastResult.key] # None
            => lastResult.outcome = "ok" /\ lastResult.value = services[lastResult.key])
    /\ [][\A k \in UserKeys, kind \in ImplKinds, c \in ServiceClasses :
            Register(k, kind, c) =>
                /\ services'[k] = lastResult'.value
                /\ \A k2 \in Keys \ {k} :
                     get_service(services', scoped', transient', k2, 0)
                       = get_service(services, scoped, transient, k2, 0)]_vars

\* The positions of the log at which an execute() began.
Begins == {i \in 1..Len(log) : log[i].ev = "begin"}

Begun == {log[i].task : i \in Begins}

\* The position of a held task in the executor's table.
Pos(t) == CHOOSE i \in 1..Len(tasks) : tasks[i].serial = t.serial

\* The table is the one the logged pass ran on: the pass is in progress or
\* has just returned.
PassTableCurrent == passKind # "none" \/ lastResult.op \in {"execute_all_async", "start"}

C6_EffectiveEnabledRuns ==
    /\ \A t \in Begun : t.is_enabled
    /\ (lastResult.op = "execute_all_async" /\ lastResult.outcome = "ok"
           => Begun = {tasks[i] : i \in {j \in 1..Len(tasks) : tasks[j].is_enabled}})

\* C7: when an execute() raises the pass ends there: the error reaches the
\* caller of the pass and nothing later in the sort order begins.
C7_FailFast ==
    /\ \A i \in 1..Len(log) : log[i].ev = "raise" =>
          /\ i = Len(log)
          /\ passKind = "none"
          /\ queue = <<>>
          /\ running = {}
    /\ (lastResult.op = "execute_all_async" /\ lastResult.outcome = "raised"
           => /\ log # <<>>
              /\ LastEvent.ev = "raise"
              /\ lastResult.value = ErrorOf(LastEvent.task))
    /\ (lastResult.op = "execute_all_async" /\ lastResult.outcome = "ok"
           => \A i \in 1..Len(log) : log[i].ev # "raise")

\* The first of several enabled tasks raised, and the pass ended with tasks
\* that never began.
C7_Witness ==
    /\ lastResult.op = "execute_all_async"
    /\ lastResult.outcome = "raised"
    /\ Cardinality(Begun) < Len(sorted_tasks(tasks))

\* The last call was a start() that raised.
StartFailed == lastResult.op = "start" /\ lastResult.outcome = "raised"

\* C8: a start() in which a task's execute() raises raises that task's error
\* and leaves the started flag false, so that resolve() and Engine.current()
\* raise not-started; the next start() does not return early but runs the
\* start sequence again, with new task instances, and a start() in which no
\* task raises returns with the flag true.
C8_FailedStartResets ==
    /\ [](StartFailed =>
            /\ ~started
            /\ log # <<>>
            /\ LastEvent.ev = "raise"
            /\ lastResult.value = ErrorOf(LastEvent.task)
            /\ ~ENABLED StartNoop)
    /\ [](lastResult.op = "start" /\ lastResult.outcome = "ok" =>
            /\ started
            /\ \A i \in 1..Len(log) : log[i].ev # "raise")
    /\ [][StartFailed =>
            /\ \A k \in Keys : Resolve(k) => lastResult'.outcome = "not_started"
            /\ Current => lastResult'.outcome = "not_started"
            /\ \A d \in DiscoveryOrders(Discovered), cfg \in StartConfigs, db \in BOOLEAN :
                 StartBegin(d, cfg, db) =>
                    /\ services'["IEngine"] = EngineObj(instance)
                    /\ Len(tasks') = Len(d)
                    /\ \A i \in 1..Len(tasks') : tasks'[i].serial >= nextTask
                    /\ queue' = sorted_tasks(tasks')
                    /\ log' = <<>>]_vars
    /\ [][\A t \in running :
            TaskComplete(t) /\ passKind = "start" /\ queue = <<>>
            /\ (\A i \in 1..Len(log) : log[i].ev # "raise")
               => started' /\ lastResult'.op = "start" /\ lastResult'.outcome = "ok"]_vars

\* start() has just raised the error of the task that failed.
C8_Witness ==
    /\ StartFailed
    /\ ~started
    /\ lastResult.value = ErrorOf(LastEvent.task)
    /\ nextTask > Cardinality(Discovered) + 1

\* C9: while Engine.start() runs a task's execute(), the core services are
\* registered and the started flag is true, and resolve(IEngine) called from
\* inside execute() returns the engine.
C9_StartedBeforeTasks ==
    /\ (passKind = "start" /\ log # <<>> =>
           services["IEngine"] = EngineObj(instance))
    /\ (passKind = "start" /\ running # {} => started)
    /\ (lastResult.op = "resolve" /\ lastResult.key = "IEngine" /\ lastResult.inTask
           => lastResult.outcome = "ok" /\ lastResult.value = EngineObj(instance))

\* A task's execute() resolved IEngine during start().
C9_Witness ==
    /\ passKind = "start"
    /\ running # {}
    /\ lastResult.op = "resolve"
    /\ lastResult.key = "IEngine"
    /\ lastResult.inTask
    /\ lastResult.outcome = "ok"

\* C10: start() on a started engine is a no-op: no execute() is invoked and
\* the container tables, the executor and the started flag stay as they are.
C10_StartIdempotent ==
    [][(started /\ (StartNoop \/ \E d \in DiscoveryOrders(Discovered),
                                    cfg \in StartConfigs, db \in BOOLEAN :
                                        StartBegin(d, cfg, db)))
          => /\ lastResult'.outcome = "noop"
             /\ UNCHANGED <<started, containerVars, executorVars, passVars>>]_vars

\* start() was called on a started engine that holds tasks and registrations.
C10_Witness ==
    /\ lastResult.op = "start"
    /\ lastResult.outcome = "noop"
    /\ started
    /\ tasks # <<>>
    /\ services["K1"] # None

\* C11: when stop() is called on a started engine it returns normally, and
\* on its return the started flag is false and the singleton, scoped and
\* transient tables and the repository registrations are empty -- whether
\* or not the close of the database context or the executor's cleanup
\* raised.
C11_StopClearsState ==
    [][(started /\ Stop)
       => /\ lastResult'.op = "stop"
          /\ lastResult'.outcome = "ok"
          /\ ~started'
          /\ services' = EmptyTable
          /\ scoped' = EmptyTable
          /\ transient' = EmptyTable
          /\ repository_registrations' = {}]_vars

\* stop() has returned after both the close of the database context and the
\* executor's cleanup raised.
C11_Witness ==
    /\ lastResult.op = "stop"
    /\ lastResult.outcome = "ok"
    /\ stopLog = {"close", "cleanup"}
    /\ ~started
    /\ services = EmptyTable

\* C12: when stop() has returned on a started engine, cleanup() has been
\* awaited on every task the startup task executor holds.
C12_StopCleansEveryTask ==
    (lastResult.op = "stop" /\ lastResult.outcome = "ok")
        => \A i \in DOMAIN tasks : tasks[i] \in cleaned

\* C13: when scope.resolve(k) returns for a key registered as scoped, the
\* instance returned is the one the scope holds for k from then on; it is
\* the instance the scope already held, with no factory call, when there
\* was one, and otherwise the product of one factory call; and no other
\* scope holds that instance under any key.
C13_ScopedInstancePerScope ==
    [][\A s \in DOMAIN scopeCache, k \in UserKeys :
        (lastResult'.outcome = "ok" /\ scoped[k] # None /\ ScopeResolve(s, k))
        => /\ CacheGet(scopeCache'[s], k) = lastResult'.value
           /\ IF CacheGet(scopeCache[s], k) # None
              THEN /\ lastResult'.value = CacheGet(scopeCache[s], k)
                   /\ lastResult'.invoked = 0
              ELSE lastResult'.invoked = 1
           /\ \A s2 \in DOMAIN scopeCache \ {s}, k2 \in UserKeys :
                CacheGet(scopeCache'[s2], k2) # lastResult'.value]_vars

\* Two scopes hold an instance each for K1, and a repeated resolve of K1 on
\* the first scope has returned that scope's instance without a factory call.
C13_Witness ==
    /\ Len(scopeCache) = 2
    /\ CacheGet(scopeCache[1], "K1") # None
    /\ CacheGet(scopeCache[2], "K1") # None
    /\ CacheGet(scopeCache[1], "K1") # CacheGet(scopeCache[2], "K1")
    /\ lastResult.op = "scope_resolve"
    /\ lastResult.key = "K1"
    /\ lastResult.arg = ScopeObj(1)
    /\ lastResult.invoked = 0
    /\ lastResult.value = CacheGet(scopeCache[1], "K1")

\* How often v's dispose hook has been awaited according to hc.
Calls(hc, v) == IF v \in DOMAIN hc THEN hc[v].calls ELSE 0

\* No instance's dispose hook has been awaited twice.
NoHookTwice == \A v \in DOMAIN hookCalls : hookCalls[v].calls <= 1

\* No dispose hook has raised so far.
NoHookRaised == \A v \in DOMAIN hookCalls : ~hookCalls[v].raised

\* What a dispose() of scope s does in the step, per C14: the hook of each
\* cached instance that has one is awaited once, no other hook is, and the
\* cache is left empty.
DisposesAll(s) ==
    /\ \A v \in DOMAIN hookCalls' :
        Calls(hookCalls', v) = Calls(hookCalls, v)
                               + (IF \E i \in DOMAIN scopeCache[s] :
                                       scopeCache[s][i].value = v /\ HasDisposeHook(v)
                                  THEN 1 ELSE 0)
    /\ \A i \in DOMAIN scopeCache[s] :
        HasDisposeHook(scopeCache[s][i].value)
        => scopeCache[s][i].value \in DOMAIN hookCalls'
    /\ scopeCache'[s] = <<>>

ScopedOnly(k) == scoped[k] # None /\ services[k] = None /\ transient[k] = None

\* C15: get_service(k), and Engine.resolve(k) on a started engine, for a
\* key registered only as scoped raise the requires-a-scope error, call no
\* factory and build no instance.
C15_ScopedNeedsScope ==
    [][\A k \in Keys :
        (ScopedOnly(k) /\ (GetService(k) \/ (started /\ Resolve(k))))
        => /\ lastResult'.outcome = "scoped_error"
           /\ lastResult'.value = None
           /\ lastResult'.invoked = 0
           /\ nextObj' = nextObj]_vars

\* Engine.resolve on a started engine has raised the requires-a-scope error
\* for a key that is registered only as scoped.
C15_Witness ==
    /\ started
    /\ lastResult.op = "resolve"
    /\ lastResult.outcome = "scoped_error"
    /\ ScopedOnly(lastResult.key)

\* The registration kinds whose table holds an entry for k.
KindsOf(k) ==
    (IF services[k] # None THEN {"singleton"} ELSE {})
    \cup (IF scoped[k] # None THEN {"scoped"} ELSE {})
    \cup (IF transient[k] # None THEN {"transient"} ELSE {})

\* C16: no key is present in more than one of the singleton, scoped and
\* transient tables at the same time.
C16_OneKindPerKey == \A k \in Keys : Cardinality(KindsOf(k)) <= 1

\* k is registered as transient and as nothing else.
TransientOnly(k) == transient[k] # None /\ services[k] = None /\ scoped[k] = None

\* C17: add_scoped and add_transient store the factory and call nothing;
\* get_service(k) for a key registered only as transient calls the factory
\* once and returns its product, an object that did not exist before the
\* call.
C17_TransientFreshEachTime ==
    [][/\ \A k \in UserKeys, f \in FactoryImpls :
            /\ AddScoped(k, f)
                => scoped'[k] = f /\ lastResult'.invoked = 0 /\ nextObj' = nextObj
            /\ AddTransient(k, f)
                => transient'[k] = f /\ lastResult'.invoked = 0 /\ nextObj' = nextObj
       /\ \A k \in Keys :
            (TransientOnly(k) /\ GetService(k))
            => /\ lastResult'.outcome = "ok"
               /\ lastResult'.invoked = 1
               /\ lastResult'.value = Invoke(transient[k], nextObj)
               /\ nextObj' = nextObj + 1]_vars

\* A get_service of a key registered only as transient has returned a new
\* instance, after an earlier resolution of the key returned another.
C17_Witness ==
    /\ lastResult.op = "get_service"
    /\ lastResult.outcome = "ok"
    /\ TransientOnly(lastResult.key)
    /\ lastResult.invoked = 1
    /\ lastResult.value.serial = 2
    /\ nextObj = 3
    /\ \A k \in Keys : services[k] = None

\* The serials of the task instances the executor holds.
HeldSerials(ts) == {ts[i].serial : i \in DOMAIN ts}

\* C18: the executor holds at most one task per name; an add_task leaves
\* the added instance as the one held for its name and the other names'
\* tasks as they were; and a pass begins execute() only on instances the
\* executor holds, never on a replaced one.
C18_OneTaskPerName ==
    [][/\ \A i, j \in DOMAIN tasks' : TaskName(tasks'[i]) = TaskName(tasks'[j]) => i = j
       /\ \A c \in TaskClassIds :
            AddTask(c)
            => /\ \E i \in DOMAIN tasks' : tasks'[i] = NewTask(c, nextTask)
               /\ \A i \in DOMAIN tasks :
                    TaskName(tasks[i]) # TaskClass[c].name
                    => \E j \in DOMAIN tasks' : tasks'[j] = tasks[i]
       /\ TaskBegin => Head(queue).serial \in HeldSerials(tasks)]_vars

\* A pass has begun execute() on the second instance added under a name,
\* the only task the executor holds after two add_task calls.
C18_Witness ==
    /\ nextTask = 3
    /\ Len(tasks) = 1
    /\ tasks[1].serial = 2
    /\ log # <<>>
    /\ LastEvent.ev = "begin"
    /\ LastEvent.task.serial = 2

Range(seq) == {seq[i] : i \in DOMAIN seq}

NoRepeats(seq) == \A i, j \in DOMAIN seq : seq[i] = seq[j] => i = j

\* The module is scanned to its end: listing its classes does not raise
\* and none of its classes has a __module__ that is not a string.
ScansThrough(m) ==
    /\ ~ModuleTable[m].broken
    /\ \A c \in Range(ModuleTable[m].members) : ~HomeRaises(c)

\* The classes listed by the indexed modules that are scanned to their end.
Listed == UNION {Range(ModuleTable[m].members) : m \in {x \in Range(loaded_modules) : ScansThrough(x)}}

\* c is what the last find_* call was looking for.
Sought(c) ==
    /\ ~FromIgnoredModule(c)
    /\ IF lastResult.op = "find_classes_of_type"
       THEN Reported(c, lastResult.key = "concrete")
       ELSE GenericMatch(c, lastResult.key)

FinderReturned == lastResult.op \in {"find_classes_of_type", "find_generic_implementations"}

\* C19: the result of a discovery pass lists no type twice, and of two
\* distinct sought types that share a short name and are listed by scanned
\* modules, both are in the result.
C19_NoTypeTwice ==
    FinderReturned
    => /\ NoRepeats(found)
       /\ \A c1, c2 \in Listed :
            (c1 # c2 /\ TypeTable[c1].name = TypeTable[c2].name /\ Sought(c1) /\ Sought(c2))
            => {c1, c2} \subseteq Range(found)

\* A pass over an index that holds one module under two names, and in which
\* a class is listed by two modules and twice by one of them, has returned
\* both classes named Repo, each once.
C19_Witness ==
    /\ FinderReturned
    /\ Len(loaded_modules) = 3
    /\ loaded_modules[1] = loaded_modules[2]
    /\ Range(loaded_modules) = {1, 2}
    /\ {1, 2} \subseteq Range(found)
    /\ Len(found) = 2

\* C20: find_classes_of_type returns every sought class whose
\* assignability check does not raise and that is listed by a module
\* scanned to its end, whatever errors other modules or other candidates
\* of the same module raised.
C20_ErrorsDoNotAbort ==
    lastResult.op = "find_classes_of_type"
    => \A c \in Listed :
        (Sought(c) /\ TypeTable[c].assignable # "raises") => c \in Range(found)

\* A pass over a module that cannot be listed, a module one of whose
\* candidates raises in the assignability check before a sought class, and
\* a module whose scan raises midway has returned the sought classes.
C20_Witness ==
    /\ lastResult.op = "find_classes_of_type"
    /\ loaded_modules = <<4, 1, 3>>
    /\ \E c \in Range(ModuleTable[1].members) : TypeTable[c].assignable = "raises"
    /\ 1 \in Range(found)

\* C23: Engine.current() returns the singleton engine exactly when the
\* class-level slot is set and the engine's started flag is true; otherwise
\* it raises: the not-initialized error before initialize(), the not-started
\* error before start(), after stop() and after a start() that failed.
C23_CurrentNeedsStarted ==
    lastResult.op = "current" =>
        IF instance # 0 /\ started
        THEN lastResult.outcome = "ok" /\ lastResult.value = EngineObj(instance)
        ELSE /\ lastResult.value = None
             /\ lastResult.outcome = IF instance = 0 THEN "not_initialized"
                                     ELSE "not_started"

\* current() raised the not-started error on an engine that was started and
\* then stopped.
C23_Witness ==
    /\ lastResult.op = "current"
    /\ lastResult.outcome = "not_started"
    /\ stopLog # {}

\* C30: a dispose() in which the r-th awaited hook raises ends with that
\* error, has awaited the hooks of the first r hooked instances of the cache
\* once more each and those of the instances after them not at all, and
\* leaves the scope's cache as it was; every dispose() awaits the hooks it
\* reaches whether or not they were awaited before, so a dispose() after
\* such a failure awaits the earlier instances' hooks again.
C30_RaisingHookStopsDispose ==
    [][\A s \in DOMAIN scopeCache : \A r \in 0..Len(Hooked(scopeCache[s])) :
        (lastResult'.op = "dispose" /\ lastResult'.arg = ScopeObj(s) /\ ScopeDispose(s, r))
        => LET h == Hooked(scopeCache[s])
               reached == IF r = 0 THEN Len(h) ELSE r
           IN /\ \A i \in DOMAIN h :
                    Calls(hookCalls', h[i]) =
                        Calls(hookCalls, h[i]) + (IF i <= reached THEN 1 ELSE 0)
              /\ r > 0 => /\ lastResult'.outcome = "raised"
                          /\ scopeCache'[s] = scopeCache[s]
                          /\ hookCalls'[h[r]].raised]_vars

\* Of two instances cached in one scope, the hook of one has been awaited
\* twice and the hook of the other once, raising: a dispose() ended by a
\* raising hook left the cache, and the next dispose() awaited a hook again.
C30_Witness ==
    /\ lastResult.op = "dispose"
    /\ \E s \in DOMAIN scopeCache : \E v, w \in DOMAIN hookCalls :
        /\ {v, w} \subseteq {scopeCache[s][i].value : i \in DOMAIN scopeCache[s]}
        /\ hookCalls[v].calls = 2
        /\ hookCalls[w].calls = 1
        /\ hookCalls[w].raised

\* The classes visible in the finder's cached modules.
Visible == UNION {Range(ModuleTable[m].members) : m \in Range(loaded_modules)}

\* c is assignable to the target, its declaring module name starts with no
\* prefix of the ignore list and, when only_concrete, it is not abstract.
Qualifies(c, only_concrete) ==
    /\ TypeTable[c].assignable = "yes"
    /\ ~HomeRaises(c)
    /\ TypeTable[c].home \notin IgnorePrefixes
    /\ (only_concrete => ~TypeTable[c].abstract)

\* The classes one module's scan inspects, given the classes met earlier in
\* the pass: it takes the listed classes in order, passes over those already
\* met, and ends at the first class whose inspection raises.
RECURSIVE InspectedOf(_, _)
InspectedOf(members, acc) ==
    IF members = <<>> THEN acc
    ELSE LET c == Head(members)
         IN IF c \in acc.met THEN InspectedOf(Tail(members), acc)
            ELSE IF HomeRaises(c) THEN [acc EXCEPT !.met = acc.met \cup {c}]
            ELSE InspectedOf(Tail(members),
                             [met |-> acc.met \cup {c}, inspected |-> acc.inspected \cup {c}])

RECURSIVE InspectedIn(_, _)
InspectedIn(mods, acc) ==
    IF mods = <<>> THEN acc
    ELSE InspectedIn(Tail(mods),
                     IF ModuleTable[Head(mods)].broken THEN acc
                     ELSE InspectedOf(ModuleTable[Head(mods)].members, acc))

\* The classes a pass over the cached modules inspects.
Inspected == InspectedIn(loaded_modules, [met |-> {}, inspected |-> {}]).inspected

C24_ConfiguredBeforeExecute ==
    [][\A d \in DiscoveryOrders(Discovered), cfg \in StartConfigs :
        StartBegin(d, cfg, TRUE)
        => \A i \in DOMAIN tasks' :
            LET entry == cfg[TaskName(tasks'[i])]
            IN /\ entry # "absent" => tasks'[i].is_enabled = (entry = "true")
               /\ entry = "false" => tasks'[i] \notin Range(queue')]_vars

\* The task was handed to add_startup_task: start() instantiates the
\* discovered classes only.
AddedByCaller(t) == t.cls \in AddedClasses

\* C22: the executor that a start() runs holds every task that
\* add_startup_task stored before, and its pass, sorted by order, has the
\* enabled ones among the tasks to execute.
C22_AddedTaskRuns ==
    [][\A d \in DiscoveryOrders(Discovered), cfg \in StartConfigs :
        StartBegin(d, cfg, TRUE)
        => /\ \A i \in DOMAIN tasks :
                AddedByCaller(tasks[i])
                => /\ tasks[i] \in Range(tasks')
                   /\ TaskEnabled(tasks[i]) => tasks[i] \in Range(queue')
           /\ \A i, j \in DOMAIN queue' :
                i < j => TaskOrder(queue'[i]) <= TaskOrder(queue'[j])]_vars

\* C25: no pass of Engine.start invokes execute() on a task instance whose
\* execute() a pass of Engine.start has invoked before, whether that was
\* in the same start(), in a start() that failed, or before a stop().
C25_ExecutedOncePerInstance ==
    [][(passKind = "start" /\ TaskBegin) => Head(queue).serial \notin executed]_vars

\* After a start() that executed a task and a stop(), a later start() is
\* executing a task while the executed instance of the earlier start() is
\* no longer held by the executor.
C25_Witness ==
    /\ passKind = "start"
    /\ running # {}
    /\ stopLog # {}
    /\ \E n \in executed : n \notin HeldSerials(tasks)

\* Every enabled task the executor holds has completed its execute().
EnabledTasksCompleted ==
    \A t \in Range(sorted_tasks(tasks)) : \E i \in DOMAIN log : log[i] = Event("end", t)

\* C29: with start() and stop() callers interleaved at await points,
\* whenever a start() call returns normally the started flag is true and
\* every enabled startup task has completed its execute().
C29_StartReturnsStarted ==
    [][(/\ lastResult' # lastResult
        /\ lastResult'.op = "start"
        /\ lastResult'.outcome \in {"ok", "noop"})
       => started' /\ EnabledTasksCompleted']_vars

\* The repository implementations discovery finds, in the type finder's order.
RepositoryImplementations == find_generic_implementations(loaded_modules, "any")

\* e has an implementation among those discovery finds.
HasImplementation(e) ==
    \E i \in DOMAIN RepositoryImplementations :
        TypeTable[RepositoryImplementations[i]].generic = e

\* C21: once discovery has run, every specific interface I<E>Repository
\* whose entity E has a discovered implementation is bound to a factory of
\* an implementation discovered for E, with entity type E, whatever the
\* order in which the implementations were discovered.
C21_BoundToOwnImplementation ==
    started =>
        \A k \in SpecificInterfaces :
            HasImplementation(ExtractedName[k]) =>
                /\ repo_factories[k].tag = "func"
                /\ repo_factories[k].et = ExtractedName[k]
                /\ TypeTable[repo_factories[k].rc].generic = ExtractedName[k]

\* v is the session the container offers now: what is stored under
\* AsyncSession, else the session of the database context stored under
\* IDbContext, else an in-memory session made for the occasion.
IsSessionAvailableNow(v) ==
    IF services["AsyncSession"] # None THEN v = services["AsyncSession"]
    ELSE IF services["IDbContext"] # None THEN v = SessionOf(services["IDbContext"])
    ELSE v.cls = "MemorySession" /\ v.serial >= nextObj

\* C26: a start(), and with it discovery, constructs no object and stores
\* factories only under the repository interfaces; every successful resolve
\* of a repository interface calls the factory and returns an instance of
\* the bound implementation that did not exist before, constructed with
\* the session the container offers at that moment.
C26_RepositoriesBuiltOnResolve ==
    [][/\ (\E db \in BOOLEAN : StartBegin(<<>>, NoConfig, db)) =>
            /\ nextObj' = nextObj
            /\ \A k \in RepoKeys : repo_factories'[k].tag \in {"none", "func"}
       /\ \A k \in RepoKeys :
            (ResolveRepository(k) /\ lastResult'.outcome = "ok") =>
                /\ lastResult'.invoked = 1
                /\ lastResult'.value.cls = TypeTable[repo_factories[k].rc].name
                /\ lastResult'.value.serial >= nextObj
                /\ nextObj' > lastResult'.value.serial
                /\ IsSessionAvailableNow(lastResult'.arg)]_vars

\* A third object of the process is a repository resolved with the session
\* of the database context the owner registered as the first object: an
\* earlier resolve constructed another repository.
C26_Witness ==
    /\ lastResult.op = "resolve"
    /\ lastResult.key \in RepoKeys
    /\ lastResult.outcome = "ok"
    /\ lastResult.value.serial = 3
    /\ services["AsyncSession"] = None
    /\ services["IDbContext"] = Obj("DbContext", 1)
    /\ lastResult.arg = SessionOf(Obj("DbContext", 1))

\* The instances a scope's cache holds.
CachedIn(cache) == {cache[i].value : i \in DOMAIN cache}

\* C28: a scope's cache never holds a root singleton and no dispose hook of
\* a root singleton is ever awaited.  A scope.resolve leaves every other
\* scope's cache and the hooks alone, and changes its own cache only by
\* adding, under the key, the instance its call of the engine's scoped
\* factory for that key just produced: what falls through to the root
\* container is returned uncached.  A scope.dispose leaves every other
\* scope's cache alone and awaits hooks of instances of its own cache only.
C28_ScopeKeepsToItsOwn ==
    [][/\ \A k \in Keys :
            /\ services'[k] \notin DOMAIN hookCalls'
            /\ \A s \in DOMAIN scopeCache' : services'[k] \notin CachedIn(scopeCache'[s])
       /\ lastResult'.op = "scope_resolve" =>
             LET s == lastResult'.arg.serial
                 k == lastResult'.key
             IN  /\ \A s2 \in DOMAIN scopeCache \ {s} : scopeCache'[s2] = scopeCache[s2]
                 /\ hookCalls' = hookCalls
                 /\ (scoped[k] = None => scopeCache'[s] = scopeCache[s])
                 /\ (scopeCache'[s] # scopeCache[s] =>
                         /\ lastResult'.invoked = 1
                         /\ lastResult'.value.serial = nextObj
                         /\ nextObj' = nextObj + 1
                         /\ scopeCache'[s] = Append(scopeCache[s],
                                                    [key |-> k, value |-> lastResult'.value]))
       /\ lastResult'.op = "dispose" =>
             LET s == lastResult'.arg.serial
             IN  /\ \A s2 \in DOMAIN scopeCache \ {s} : scopeCache'[s2] = scopeCache[s2]
                 /\ \A v \in DOMAIN hookCalls' :
                       (v \notin DOMAIN hookCalls \/ hookCalls'[v] # hookCalls[v])
                           => v \in CachedIn(scopeCache[s])]_vars

\* Two objects with a dispose hook were made, no singleton is registered
\* and no scope holds an instance: the first is a transient the engine's
\* resolve produced for a scope, the second a scope's own instance.  A
\* dispose() has just awaited the hook of the second; no hook of the first
\* was ever awaited.
C28_Witness ==
    /\ lastResult.op = "dispose"
    /\ lastResult.outcome = "ok"
    /\ \A k \in Keys \ {"IEngine"} : services[k] = None
    /\ nextObj = 3
    /\ \A s \in DOMAIN scopeCache : scopeCache[s] = <<>>
    /\ DOMAIN hookCalls = {Obj("Disposable", 2)}

====
